---- MODULE Spec2Model ----
(***************************************************************************)
(* Model of Utilities/build-script-helper.py: the command line is parsed   *)
(* into an argparse namespace, the selected action (build, test, install)  *)
(* is run by handle_invocation, and with --sanitize-all it is run again    *)
(* once per sanitizer.  Every subprocess the script starts is appended to  *)
(* the log "invocations" together with its exit status.                    *)
(*                                                                         *)
(* Strings are modelled as sequences of pieces: a path is the sequence of  *)
(* its components ("/" first when absolute), a formatted string is the     *)
(* sequence of the format's literal part and its arguments.  A command is  *)
(* a sequence of such strings.                                             *)
(***************************************************************************)
EXTENDS Integers, Sequences, FiniteSets, TLC

\* ---------------------------------------------------------------------------
\* Bounds of the model

\* greatest number of values given to --prefix
MaxPrefixes == 2
\* greatest number of --sanitize options on the command line
MaxSanitize == 1
\* greatest number of failing target-info queries explored in one run on the
\* platform where such a failure is survived
MaxTargetInfoFailures == 2

\* ---------------------------------------------------------------------------
\* Python values

\* None, for values that are strings otherwise
None == <<"<None>">>
\* None, for values that are lists of strings otherwise
NoneList == <<None>>

\* truth value of an Optional[str] or of an Optional[List[str]] of kinds
Truthy(v) == v # None /\ v # <<>>
\* truth value of an Optional[List[str]] of paths
TruthyList(l) == l # NoneList /\ l # <<>>

\* all sequences over S of length at most n
RECURSIVE SeqsUpTo(_, _)
SeqsUpTo(S, n) ==
    IF n = 0 THEN {<<>>}
    ELSE LET shorter == SeqsUpTo(S, n - 1)
         IN  shorter \cup {Append(s, x) : s \in shorter, x \in S}

\* ---------------------------------------------------------------------------
\* os.path

Cwd == <<"/", "cwd">>

IsAbs(p) == Len(p) > 0 /\ p[1] = "/"

\* os.path.join of two paths: an absolute second path replaces the first
path_join(a, b) == IF IsAbs(b) THEN b ELSE a \o b

\* os.path.normpath, as far as "." components go
RECURSIVE normpath(_)
normpath(p) ==
    IF p = <<>> THEN <<>>
    ELSE IF Head(p) = "." THEN normpath(Tail(p))
    ELSE <<Head(p)>> \o normpath(Tail(p))

\* os.path.abspath
abspath(p) == normpath(IF IsAbs(p) THEN p ELSE path_join(Cwd, p))

\* a is a directory strictly below b
IsSubdirectory(a, b) ==
    /\ Len(a) > Len(b)
    /\ SubSeq(a, 1, Len(b)) = b

\* ---------------------------------------------------------------------------
\* The command lines explored

Actions == {"build", "test", "install"}
Systems == {"Darwin", "Linux", "Windows"}
SanitizerKinds == {"address", "thread", "undefined"}

\* the target triples 'swift -print-target-info' reports on a platform
Triples(sys) ==
    CASE sys = "Darwin" -> {<<"x86_64-apple-macosx">>, <<"arm64-apple-macosx">>}
      [] sys = "Linux" -> {<<"x86_64-unknown-linux-gnu">>}
      [] OTHER -> {<<"x86_64-unknown-windows-msvc">>}

BuildPaths == {<<".build">>, <<"/", "out">>}
Toolchain == <<"tc">>
PackagePath == <<".">>
CrossCompileHosts ==
    {None, <<>>, <<"macosx-arm64">>, <<"android-", "aarch64">>, <<"bogus">>}
CrossCompileConfigs == {None, <<"/", "android.json">>}
Prefixes == {<<"/", "usr">>, <<"opt">>}

NoTargetInfo == [triple |-> None, unversionedTriple |-> None]

\* the namespaces parser.parse_args can return (line 267)
CommandLines ==
    [ action : Actions,
      package_path : {PackagePath},
      toolchain : {Toolchain},
      build_path : BuildPaths,
      configuration : {<<"debug">>},
      sanitize : {None} \cup (SeqsUpTo(SanitizerKinds, MaxSanitize) \ {<<>>}),
      sanitize_all : BOOLEAN,
      verbose : BOOLEAN,
      cross_compile_host : CrossCompileHosts,
      cross_compile_config : CrossCompileConfigs,
      install_prefixes : {NoneList} \cup SeqsUpTo(Prefixes, MaxPrefixes),
      target_info : {NoTargetInfo} ]

\* ---------------------------------------------------------------------------
\* get_build_target

\* the JSON document printed by 'swift -print-target-info' on a machine whose
\* unversioned triple is m
TargetInfo(sys, m) ==
    [ triple |-> IF sys = "Darwin" THEN m \o <<"10.15">> ELSE m,
      unversionedTriple |-> m ]

\* outcomes of the target-info query: exit status 0 and a JSON document,
\* a non-zero exit status, or exit status 0 and output json.loads rejects
TargetInfoOutcomes == {"ok", "nonzero", "garbage"}

\* exit status of a query with the given outcome
OutcomeStatus(outcome) == IF outcome = "nonzero" THEN 1 ELSE 0

\* mutant of TargetInfoFallback: the fallback triple on every platform
TargetInfoFallbackEverywhere(sys) == TRUE

\* the except clause of get_build_target falls back to a fixed triple
TargetInfoFallback(sys) == sys = "Darwin"

FallbackTriple == <<"x86_64-apple-macosx">>

\* the value get_build_target returns; None when it ends in fatal_error
get_build_target(sys, outcome, m) ==
    IF outcome = "ok"
    THEN IF sys = "Darwin" THEN TargetInfo(sys, m).unversionedTriple
         ELSE TargetInfo(sys, m).triple
    ELSE IF TargetInfoFallback(sys) THEN FallbackTriple ELSE None

\* ---------------------------------------------------------------------------
\* get_swiftpm_options

\* re.match('android-', host)
MatchesAndroid(host) == Len(host) > 0 /\ host[1] = "android-"

\* mutant of CrossCompileUnsupported: every host is accepted
CrossCompileAlwaysSupported(build_target, host) == FALSE

\* the else branch of the cross-compile decision: fatal_error
CrossCompileUnsupported(build_target, host) ==
    /\ Truthy(host)
    /\ ~(build_target = <<"x86_64-apple-macosx">> /\ host = <<"macosx-arm64">>)
    /\ ~MatchesAndroid(host)

SanitizeFlags(sanitize) ==
    IF Truthy(sanitize)
    THEN [i \in 1..Len(sanitize) |-> <<"--sanitize=", sanitize[i]>>]
    ELSE <<>>

PlatformFlags(sys, a) ==
    IF sys = "Darwin"
    THEN << <<"-Xlinker">>, <<"-rpath">>, <<"-Xlinker">>,
            <<"@executable_path/../lib/swift/macosx">> >>
    ELSE << <<"-Xcxx">>, <<"-I">>, <<"-Xcxx">>,
            path_join(a.toolchain, <<"lib", "swift">>),
            <<"-Xcxx">>, <<"-I">>, <<"-Xcxx">>,
            path_join(a.toolchain, <<"lib", "swift", "Block">>) >>

RpathFlags(sys, a) ==
    IF Truthy(a.cross_compile_host) /\ MatchesAndroid(a.cross_compile_host)
    THEN << <<"-Xlinker">>, <<"-rpath">>, <<"-Xlinker">>,
            <<"$ORIGIN/../lib/swift/android">>,
            <<"-Xswiftc">>, <<"-Xcc">>, <<"-Xswiftc">>, <<"-U_GNU_SOURCE">> >>
    ELSE IF sys = "Linux"
    THEN << <<"-Xlinker">>, <<"-rpath">>, <<"-Xlinker">>,
            <<"$ORIGIN/../lib/swift/linux">> >>
    ELSE <<>>

CrossCompileFlags(build_target, a) ==
    IF ~Truthy(a.cross_compile_host) THEN <<>>
    ELSE IF build_target = <<"x86_64-apple-macosx">>
            /\ a.cross_compile_host = <<"macosx-arm64">>
    THEN << <<"--arch">>, <<"x86_64">>, <<"--arch">>, <<"arm64">> >>
    ELSE IF MatchesAndroid(a.cross_compile_host)
    THEN << <<"--destination">>, a.cross_compile_config >>
    ELSE <<>>

\* the list get_swiftpm_options returns when it returns
get_swiftpm_options(sys, build_target, a) ==
    << <<"--package-path">>, a.package_path,
       <<"--build-path">>, a.build_path,
       <<"--configuration">>, a.configuration >>
    \o (IF a.verbose THEN << <<"--verbose">> >> ELSE <<>>)
    \o SanitizeFlags(a.sanitize)
    \o PlatformFlags(sys, a)
    \o RpathFlags(sys, a)
    \o CrossCompileFlags(build_target, a)

\* ---------------------------------------------------------------------------
\* Commands

swift_exec(a) == path_join(a.toolchain, <<"bin", "swift">>)

TargetInfoCmd(a) == << swift_exec(a), <<"-print-target-info">> >>

BinPathCmd(a, flags) ==
    << swift_exec(a), <<"build">>, <<"--show-bin-path">> >> \o flags

BuildProductCmd(a, product, flags) ==
    << swift_exec(a), <<"build">>, <<"--product">>, <<product>> >> \o flags

TestCmd(a, flags) ==
    << swift_exec(a), <<"test">>, <<"--parallel">>,
       <<"--disable-testable-imports">>,
       <<"--test-product">>, <<"SourceKitLSPPackageTests">> >> \o flags

NoStdlibRpath == << <<"-Xswiftc">>, <<"-no-toolchain-stdlib-rpath">> >>

InstallBuildCmd(a, flags) == << swift_exec(a), <<"build">> >> \o flags

\* the command of install_binary
RsyncCmd(exe, source_dir, install_dir) ==
    << <<"rsync">>, <<"-a">>, path_join(source_dir, <<exe>>), install_dir >>

\* a command with a None argument cannot be started: the subprocess module
\* (or escapeCmdArg, when the command is echoed) raises TypeError
HasNoneArg(cmd) == \E i \in 1..Len(cmd) : cmd[i] = None

HasArg(cmd, tok) == \E i \in 1..Len(cmd) : cmd[i] = tok

\* the argument following the option tok in cmd, None when tok is absent
ArgAfter(cmd, tok) ==
    IF \E i \in 1..(Len(cmd) - 1) : cmd[i] = tok
    THEN cmd[(CHOOSE i \in 1..(Len(cmd) - 1) : cmd[i] = tok) + 1]
    ELSE None

\* mutant of Raises: a non-zero exit status is ignored
RaisesNever(status) == FALSE

\* subprocess.check_call and check_output raise CalledProcessError
Raises(status) == status # 0

\* ---------------------------------------------------------------------------
\* handle_invocation and main

\* mutant of products: the executable is built before the library
productsSwapped == <<"SourceKitLSPPackageTests", "sourcekit-lsp", "_SourceKitLSP">>

products == <<"SourceKitLSPPackageTests", "_SourceKitLSP", "sourcekit-lsp">>

\* mutant of InstallSteps: the build comes before the bin-path query
InstallStepsBuildFirst == <<"install_build", "swiftpm_bin_path", "install_binary">>

\* the steps of install after option assembly, in the order of the code
InstallSteps == <<"swiftpm_bin_path", "install_build", "install_binary">>

\* the steps of run_tests after option assembly
TestSteps == <<"swiftpm_bin_path", "run_tests">>

\* the steps of build_single_product after option assembly
BuildSteps == <<"build_single_product">>

StepsOf(action) ==
    CASE action = "build" -> BuildSteps
      [] action = "test" -> TestSteps
      [] action = "install" -> InstallSteps

\* the step that follows step s of the action; "return" after the last one
StepAfter(action, s) ==
    LET steps == StepsOf(action)
        i == CHOOSE j \in 1..Len(steps) : steps[j] = s
    IN  IF i < Len(steps) THEN steps[i + 1] ELSE "return"

\* mutant of InstallPrefixes: no default destination
InstallPrefixesNoDefault(a) ==
    IF TruthyList(a.install_prefixes) THEN a.install_prefixes ELSE <<>>

\* args.install_prefixes after the default has been filled in
InstallPrefixes(a) ==
    IF TruthyList(a.install_prefixes) THEN a.install_prefixes ELSE <<a.toolchain>>

\* mutant of CannotCombine: the combination is accepted
CannotCombineNever(a) == FALSE

\* the check of parse_args that ends in fatal_error
CannotCombine(a) == Truthy(a.sanitize) /\ a.sanitize_all

\* mutant of SanitizerPasses: the undefined pass also runs on Linux
SanitizerPassesAll(sys) ==
    << [kind |-> "address", dir |-> "test-asan"],
       [kind |-> "thread", dir |-> "test-tsan"],
       [kind |-> "undefined", dir |-> "test-ubsan"] >>

\* mutant of SanitizerPasses: the thread pass is missing
SanitizerPassesNoThread(sys) ==
    << [kind |-> "address", dir |-> "test-asan"] >>
    \o (IF sys # "Linux"
        THEN << [kind |-> "undefined", dir |-> "test-ubsan"] >>
        ELSE <<>>)

\* the sanitizer passes of main, in order
SanitizerPasses(sys) ==
    << [kind |-> "address", dir |-> "test-asan"],
       [kind |-> "thread", dir |-> "test-tsan"] >>
    \o (IF sys # "Linux"
        THEN << [kind |-> "undefined", dir |-> "test-ubsan"] >>
        ELSE <<>>)

\* mutant of PassBuildPath: the directory is joined to the path of the pass before
PassBuildPathNested(base_path, current, dir) == path_join(current, <<dir>>)

\* the build path of a sanitizer pass
PassBuildPath(base_path, current, dir) == path_join(base_path, <<dir>>)

\* ---------------------------------------------------------------------------
\* State

VARIABLES
    system,         \* platform.system()
    machine,        \* the unversioned triple of the machine the toolchain runs on
    pc,             \* the function the script is about to run; "done" after exit
    args,           \* the argparse namespace
    parsed,         \* history: the namespace as parse_args returned it
    base,           \* main's local variable base
    pass,           \* number of sanitizer passes main has started
    passes,         \* history: sanitize and build_path at each handle_invocation call
    swiftpm_args,   \* the local variable swiftpm_args of the running action
    build_target,   \* the local variable build_target of get_swiftpm_options
    bin_path,       \* the local variable bin_path of the running action
    product_index,  \* position of the loop over products
    prefix_index,   \* position of the loop over args.install_prefixes
    invocations,    \* history: the subprocesses started, with their exit status
    cleaned,        \* history: the directories shutil.rmtree was called on
    ti_failures,    \* number of target-info queries that failed and were survived
    exit_status,    \* exit status of the script, -1 while it runs
    error           \* what ended the script

vars == << system, machine, pc, args, parsed, base, pass, passes, swiftpm_args,
           build_target, bin_path, product_index, prefix_index, invocations,
           cleaned, ti_failures, exit_status, error >>

env == << system, machine >>
locals == << swiftpm_args, build_target, bin_path, product_index, prefix_index >>

Init ==
    /\ system \in Systems
    /\ machine \in Triples(system)
    /\ pc = "parse_args"
    /\ args \in {a \in CommandLines :
                    a.action # "install" => a.install_prefixes = NoneList}
    /\ parsed = args
    /\ base = None
    /\ pass = 0
    /\ passes = <<>>
    /\ swiftpm_args = <<>>
    /\ build_target = None
    /\ bin_path = None
    /\ product_index = 1
    /\ prefix_index = 1
    /\ invocations = <<>>
    /\ cleaned = <<>>
    /\ ti_failures = 0
    /\ exit_status = -1
    /\ error = "none"

\* the script ends with an exit status: SystemExit(1) of fatal_error, or an
\* exception nobody catches, which the interpreter turns into status 1
Exit(status, what) ==
    /\ pc' = "done"
    /\ exit_status' = status
    /\ error' = what

Running == UNCHANGED << exit_status, error >>

Invocation(kind, cmd, status) ==
    [kind |-> kind, pass |-> pass, cmd |-> cmd, status |-> status]

\* parse_args after parser.parse_args has returned
ParseArgs ==
    /\ pc = "parse_args"
    /\ IF CannotCombine(args)
       THEN /\ Exit(1, "fatal_error")
            /\ UNCHANGED << args, parsed >>
       ELSE /\ args' = [args EXCEPT !.package_path = abspath(@),
                                    !.build_path = abspath(@),
                                    !.toolchain = abspath(@)]
            /\ parsed' = args'
            /\ pc' = "handle_invocation"
            /\ Running
    /\ UNCHANGED << env, base, pass, passes, locals, invocations, cleaned,
                    ti_failures >>

\* handle_invocation: the dispatch on args.action
HandleInvocation ==
    /\ pc = "handle_invocation"
    /\ passes' = Append(passes, [sanitize |-> args.sanitize,
                                 build_path |-> args.build_path])
    /\ product_index' = 1
    /\ prefix_index' = 1
    /\ pc' = "get_swiftpm_options"
    /\ Running
    /\ UNCHANGED << env, args, parsed, base, pass, swiftpm_args, build_target,
                    bin_path, invocations, cleaned, ti_failures >>

\* get_swiftpm_options, with the target-info query of get_build_target
GetSwiftpmOptions ==
    /\ pc = "get_swiftpm_options"
    /\ \E outcome \in TargetInfoOutcomes :
         LET target == get_build_target(system, outcome, machine)
             survived == outcome # "ok" /\ target # None
         IN  /\ survived => ti_failures < MaxTargetInfoFailures
             /\ ti_failures' = IF survived THEN ti_failures + 1 ELSE ti_failures
             /\ invocations' = Append(invocations,
                    Invocation("target-info", TargetInfoCmd(args),
                               OutcomeStatus(outcome)))
             /\ args' = IF outcome = "ok"
                        THEN [args EXCEPT !.target_info = TargetInfo(system, machine)]
                        ELSE args
             /\ build_target' = target
             /\ IF target = None
                   \/ CrossCompileUnsupported(target, args.cross_compile_host)
                THEN /\ Exit(1, "fatal_error")
                     /\ UNCHANGED swiftpm_args
                ELSE /\ swiftpm_args' = get_swiftpm_options(system, target, args)
                     /\ pc' = StepsOf(args.action)[1]
                     /\ Running
    /\ UNCHANGED << env, parsed, base, pass, passes, bin_path, product_index,
                    prefix_index, cleaned >>

\* swiftpm_bin_path
SwiftpmBinPath ==
    /\ pc = "swiftpm_bin_path"
    /\ LET cmd == BinPathCmd(args, swiftpm_args)
       IN  IF HasNoneArg(cmd)
           THEN /\ Exit(1, "TypeError")
                /\ UNCHANGED << invocations, bin_path >>
           ELSE \E status \in {0, 1} :
                  /\ invocations' = Append(invocations,
                         Invocation("bin-path", cmd, status))
                  /\ IF Raises(status)
                     THEN /\ Exit(1, "CalledProcessError")
                          /\ UNCHANGED bin_path
                     ELSE /\ bin_path' = path_join(args.build_path, args.configuration)
                          /\ pc' = StepAfter(args.action, "swiftpm_bin_path")
                          /\ Running
    /\ UNCHANGED << env, args, parsed, base, pass, passes, swiftpm_args,
                    build_target, product_index, prefix_index, cleaned,
                    ti_failures >>

\* build_single_product after option assembly, and the loop over products
BuildSingleProduct ==
    /\ pc = "build_single_product"
    /\ LET cmd == BuildProductCmd(args, products[product_index], swiftpm_args)
       IN  IF HasNoneArg(cmd)
           THEN /\ Exit(1, "TypeError")
                /\ UNCHANGED << invocations, product_index >>
           ELSE \E status \in {0, 1} :
                  /\ invocations' = Append(invocations,
                         Invocation("build", cmd, status))
                  /\ IF Raises(status)
                     THEN /\ Exit(1, "CalledProcessError")
                          /\ UNCHANGED product_index
                     ELSE /\ product_index' = product_index + 1
                          /\ pc' = IF product_index < Len(products)
                                   THEN "get_swiftpm_options"
                                   ELSE StepAfter(args.action, "build_single_product")
                          /\ Running
    /\ UNCHANGED << env, args, parsed, base, pass, passes, swiftpm_args,
                    build_target, bin_path, prefix_index, cleaned, ti_failures >>

\* run_tests after the bin-path query
RunTests ==
    /\ pc = "run_tests"
    /\ cleaned' = Append(cleaned, path_join(bin_path, <<"sk-tests">>))
    /\ LET cmd == TestCmd(args, swiftpm_args)
       IN  \E status \in {0, 1} :
             /\ invocations' = Append(invocations, Invocation("test", cmd, status))
             /\ IF Raises(status)
                THEN Exit(1, "CalledProcessError")
                ELSE /\ pc' = StepAfter(args.action, "run_tests")
                     /\ Running
    /\ UNCHANGED << env, args, parsed, base, pass, passes, locals, ti_failures >>

\* install: the build invocation and the default of args.install_prefixes
InstallBuild ==
    /\ pc = "install_build"
    /\ swiftpm_args' = swiftpm_args \o NoStdlibRpath
    /\ LET cmd == InstallBuildCmd(args, swiftpm_args')
       IN  IF HasNoneArg(cmd)
           THEN /\ Exit(1, "TypeError")
                /\ UNCHANGED << invocations, args >>
           ELSE \E status \in {0, 1} :
                  /\ invocations' = Append(invocations,
                         Invocation("build", cmd, status))
                  /\ IF Raises(status)
                     THEN /\ Exit(1, "CalledProcessError")
                          /\ UNCHANGED args
                     ELSE /\ args' = [args EXCEPT
                                        !.install_prefixes = InstallPrefixes(args)]
                          /\ pc' = StepAfter(args.action, "install_build")
                          /\ Running
    /\ UNCHANGED << env, parsed, base, pass, passes, build_target, bin_path,
                    product_index, prefix_index, cleaned, ti_failures >>

\* install_binary, and the loop over args.install_prefixes
InstallBinary ==
    /\ pc = "install_binary"
    /\ IF prefix_index > Len(args.install_prefixes)
       THEN /\ pc' = StepAfter(args.action, "install_binary")
            /\ Running
            /\ UNCHANGED << invocations, prefix_index >>
       ELSE LET prefix == args.install_prefixes[prefix_index]
                cmd == RsyncCmd("sourcekit-lsp", bin_path,
                                path_join(prefix, <<"bin">>))
            IN  \E status \in {0, 1} :
                  /\ invocations' = Append(invocations,
                         Invocation("copy", cmd, status))
                  /\ IF Raises(status)
                     THEN /\ Exit(1, "CalledProcessError")
                          /\ UNCHANGED prefix_index
                     ELSE /\ prefix_index' = prefix_index + 1
                          /\ pc' = IF prefix_index < Len(args.install_prefixes)
                                   THEN "install_binary"
                                   ELSE StepAfter(args.action, "install_binary")
                          /\ Running
    /\ UNCHANGED << env, args, parsed, base, pass, passes, swiftpm_args,
                    build_target, bin_path, product_index, cleaned, ti_failures >>

\* main: the next sanitizer pass of --sanitize-all
MainNextPass ==
    /\ pc = "return"
    /\ args.sanitize_all
    /\ pass < Len(SanitizerPasses(system))
    /\ LET next == SanitizerPasses(system)[pass + 1]
           b == IF pass = 0 THEN args.build_path ELSE base
       IN  /\ base' = b
           /\ args' = [args EXCEPT
                         !.sanitize = <<next.kind>>,
                         !.build_path = PassBuildPath(b, args.build_path, next.dir)]
    /\ pass' = pass + 1
    /\ pc' = "handle_invocation"
    /\ Running
    /\ UNCHANGED << env, parsed, passes, locals, invocations, cleaned,
                    ti_failures >>

\* main returns
MainReturn ==
    /\ pc = "return"
    /\ ~args.sanitize_all \/ pass >= Len(SanitizerPasses(system))
    /\ Exit(0, "none")
    /\ UNCHANGED << env, args, parsed, base, pass, passes, locals, invocations,
                    cleaned, ti_failures >>

Next ==
    \/ ParseArgs
    \/ HandleInvocation
    \/ GetSwiftpmOptions
    \/ SwiftpmBinPath
    \/ BuildSingleProduct
    \/ RunTests
    \/ InstallBuild
    \/ InstallBinary
    \/ MainNextPass
    \/ MainReturn

Spec == Init /\ [][Next]_vars

\* ---------------------------------------------------------------------------
\* Reading the histories

Indices == 1..Len(invocations)

\* positions in the log of the invocations of kind k started in pass p
Positions(k, p) ==
    {i \in Indices : invocations[i].kind = k /\ invocations[i].pass = p}

\* the invocations of pass p, in the order they were started
OfPass(p) == SelectSeq(invocations, LAMBDA r : r.pass = p)

\* the invocations of kind k of pass p, in the order they were started
OfKind(k, p) == SelectSeq(invocations, LAMBDA r : r.kind = k /\ r.pass = p)

IsPrefix(s, t) == Len(s) <= Len(t) /\ s = SubSeq(t, 1, Len(s))

\* the --sanitize=... arguments of a command
SanitizeArgs(cmd) ==
    {cmd[i] : i \in {j \in 1..Len(cmd) : Len(cmd[j]) = 2 /\ cmd[j][1] = "--sanitize="}}

\* kinds of invocation that carry the assembled options
CarriesOptions(r) == r.kind \in {"bin-path", "build", "test"}

\* handle_invocation has returned from pass p
PassReturned(p) == p < pass \/ pc = "return" \/ (pc = "done" /\ exit_status = 0)
Succeeded == pc = "done" /\ exit_status = 0

\* ---------------------------------------------------------------------------
\* C1

\* C1: when the command line gives both --sanitize (at least one kind) and
\* --sanitize-all, the script has ended as soon as parse_args has run, with a
\* non-zero exit status and without having started any subprocess.
C1_SanitizeConflictIsFatal ==
    (pc # "parse_args" /\ Truthy(parsed.sanitize) /\ parsed.sanitize_all)
        => /\ pc = "done"
           /\ exit_status > 0
           /\ invocations = <<>>

C1_Witness ==
    /\ pc = "done"
    /\ parsed.sanitize = <<"thread">>
    /\ parsed.sanitize_all
    /\ exit_status = 1
    /\ error = "fatal_error"

\* ---------------------------------------------------------------------------
\* C2

ProductOrder == <<"SourceKitLSPPackageTests", "_SourceKitLSP", "sourcekit-lsp">>

\* C2: in a build action (each pass of it) the build invocations name the
\* products SourceKitLSPPackageTests, _SourceKitLSP, sourcekit-lsp in this
\* order, one invocation per product; a failed build invocation is the last
\* subprocess of the run, so no later product is built; a pass that has
\* returned has built all three.
C2_BuildOrderAndAbort ==
    parsed.action = "build" =>
        /\ \A p \in 0..pass :
              LET b == OfKind("build", p)
              IN  /\ Len(b) <= Len(ProductOrder)
                  /\ \A i \in 1..Len(b) :
                        /\ ArgAfter(b[i].cmd, <<"--product">>) = <<ProductOrder[i]>>
                        /\ b[i].status # 0 => i = Len(b)
                  /\ PassReturned(p) => Len(b) = Len(ProductOrder)
        /\ \A i \in Indices :
              (invocations[i].kind = "build" /\ invocations[i].status # 0)
                  => /\ i = Len(invocations)
                     /\ pc = "done"

C2_Witness ==
    /\ parsed.action = "build"
    /\ pc = "done"
    /\ Len(OfKind("build", 0)) = 2
    /\ OfKind("build", 0)[2].status = 1
    /\ ArgAfter(OfKind("build", 0)[2].cmd, <<"--product">>) = <<"_SourceKitLSP">>
    /\ \A i \in Indices :
          ArgAfter(invocations[i].cmd, <<"--product">>) # <<"sourcekit-lsp">>

\* ---------------------------------------------------------------------------
\* C3

SanitizerOrder == <<"address", "thread", "undefined">>

\* number of sanitizer passes of a complete --sanitize-all run
ExpectedPasses == IF system = "Linux" THEN Len(SanitizerOrder) - 1 ELSE Len(SanitizerOrder)

\* C3: with --sanitize-all the sanitizer passes (the calls of
\* handle_invocation after the first) come in the order address, thread,
\* undefined; pass i works with exactly the i-th kind, every command of the
\* pass that carries options names that kind and no other, and its build
\* path is a subdirectory of the parsed build path that no other pass uses;
\* a run without failure makes all three passes, and on Linux just two:
\* address, then thread.
C3_SanitizerPassOrder ==
    parsed.sanitize_all =>
        /\ Len(passes) <= 1 + ExpectedPasses
        /\ \A i \in 2..Len(passes) :
              /\ passes[i].sanitize = <<SanitizerOrder[i - 1]>>
              /\ IsSubdirectory(passes[i].build_path, parsed.build_path)
              /\ \A j \in 2..Len(passes) :
                    j # i => passes[j].build_path # passes[i].build_path
        /\ \A k \in Indices :
              LET r == invocations[k]
              IN  (r.pass >= 1 /\ CarriesOptions(r)) =>
                    /\ SanitizeArgs(r.cmd) = {<<"--sanitize=", SanitizerOrder[r.pass]>>}
                    /\ ArgAfter(r.cmd, <<"--build-path">>) = passes[r.pass + 1].build_path
        /\ Succeeded => Len(passes) = 1 + ExpectedPasses

C3_Witness ==
    /\ parsed.sanitize_all
    /\ system = "Linux"
    /\ Succeeded
    /\ Len(passes) = 3
    /\ passes[2].sanitize = <<"address">>
    /\ passes[3].sanitize = <<"thread">>
    /\ \A k \in Indices : invocations[k].status = 0

\* ---------------------------------------------------------------------------
\* C10

\* the action has been carried out completely in pass p: every subprocess
\* of the action was started in that pass and exited with status 0
ActionPerformed(p) ==
    CASE parsed.action = "build" ->
            /\ Len(OfKind("build", p)) = 3
            /\ \A i \in Positions("build", p) : invocations[i].status = 0
      [] parsed.action = "test" ->
            /\ Len(OfKind("test", p)) = 1
            /\ \A i \in Positions("test", p) : invocations[i].status = 0
      [] parsed.action = "install" ->
            /\ Len(OfKind("build", p)) = 1
            /\ Len(OfKind("copy", p)) >= 1
            /\ \A i \in Positions("build", p) \cup Positions("copy", p) :
                  invocations[i].status = 0

\* C10: with --sanitize-all the first call of handle_invocation has no
\* sanitizer and the parsed build path, and its commands carry no
\* --sanitize argument; a sanitizer pass starts only after that first pass
\* has carried out the action; a run that ends with status 0 has carried out
\* the action once without sanitizer and once per sanitizer pass (four times,
\* three on Linux); every sanitizer pass builds underneath the build path of
\* the first pass.
C10_UnsanitizedPassFirst ==
    (parsed.sanitize_all /\ Len(passes) >= 1) =>
        /\ ~Truthy(passes[1].sanitize)
        /\ passes[1].build_path = parsed.build_path
        /\ \A k \in Indices :
              (invocations[k].pass = 0 /\ CarriesOptions(invocations[k])) =>
                  /\ SanitizeArgs(invocations[k].cmd) = {}
                  /\ ArgAfter(invocations[k].cmd, <<"--build-path">>)
                        = passes[1].build_path
        /\ Len(passes) >= 2 => ActionPerformed(0)
        /\ \A i \in 2..Len(passes) :
              IsSubdirectory(passes[i].build_path, passes[1].build_path)
        /\ Succeeded =>
              /\ Len(passes) = (IF system = "Linux" THEN 2 ELSE 3) + 1
              /\ \A p \in 0..(Len(passes) - 1) : ActionPerformed(p)

C10_Witness ==
    /\ parsed.sanitize_all
    /\ parsed.action = "install"
    /\ system = "Darwin"
    /\ Succeeded
    /\ Len(passes) = 4
    /\ ActionPerformed(3)

\* ---------------------------------------------------------------------------
\* C6

\* the destinations of the copies of pass p, in the order of the copies
CopyDestinations(p) ==
    LET c == OfKind("copy", p) IN [i \in 1..Len(c) |-> c[i].cmd[Len(c[i].cmd)]]

\* the destinations the command line asks for
RequestedDestinations ==
    IF parsed.install_prefixes = NoneList \/ parsed.install_prefixes = <<>>
    THEN << parsed.toolchain \o <<"bin">> >>
    ELSE [i \in 1..Len(parsed.install_prefixes) |->
            parsed.install_prefixes[i] \o <<"bin">>]

\* C6: in an install action the copies of a pass go, one per supplied prefix
\* and in their order, to <prefix>/bin; without --prefix, or with --prefix and
\* no value, there is one copy, to <toolchain>/bin; every copy takes the
\* executable sourcekit-lsp from the bin path; a pass that has returned has
\* made all of them.
C6_InstallDestinations ==
    (parsed.action = "install" /\ pc # "parse_args") =>
        \A p \in 0..pass :
            /\ IsPrefix(CopyDestinations(p), RequestedDestinations)
            /\ PassReturned(p) => CopyDestinations(p) = RequestedDestinations
            /\ \A i \in Positions("copy", p) :
                  /\ invocations[i].cmd[1] = <<"rsync">>
                  /\ invocations[i].cmd[3]
                        = ArgAfter(OfKind("build", p)[1].cmd, <<"--build-path">>)
                          \o <<"debug", "sourcekit-lsp">>

C6_Witness ==
    /\ parsed.action = "install"
    /\ parsed.install_prefixes = <<>>
    /\ Succeeded
    /\ ~parsed.sanitize_all
    /\ CopyDestinations(0) = << <<"/", "cwd", "tc", "bin">> >>

C6_WitnessPrefixes ==
    /\ parsed.action = "install"
    /\ Len(parsed.install_prefixes) = 2
    /\ parsed.install_prefixes # NoneList
    /\ Succeeded
    /\ CopyDestinations(0) = << <<"/", "usr", "bin">>, <<"opt", "bin">> >>

\* ---------------------------------------------------------------------------
\* C4

\* option assembly has run at least once
OptionsAssembled == Len(invocations) >= 1

\* the requested cross-compile host is neither macosx-arm64 on the resolved
\* triple x86_64-apple-macosx nor an android-* name
UnsupportedCrossCompile ==
    LET host == parsed.cross_compile_host
    IN  /\ host # None
        /\ ~(host = <<"macosx-arm64">> /\ build_target = <<"x86_64-apple-macosx">>)
        /\ ~(Len(host) >= 1 /\ host[1] = "android-")

\* C4 as stated: the fatal error comes before any subprocess of the external
\* build tool, the target-info query included.
C4_NoSubprocessBeforeError ==
    (OptionsAssembled /\ UnsupportedCrossCompile /\ parsed.cross_compile_host # <<>>) =>
        /\ pc = "done"
        /\ exit_status > 0
        /\ \A k \in Indices : invocations[k].cmd[1] # swift_exec(parsed)

\* C4, amended: when the requested cross-compile host is not empty and is
\* neither macosx-arm64 on the resolved triple x86_64-apple-macosx nor an
\* android-* name, option assembly ends in fatal_error with exit status 1
\* directly after its target-info query, which is the last subprocess of the
\* run; unless an earlier target-info query of the run had failed and been
\* replaced by the fallback triple, that query is the only subprocess of the
\* run, so no bin-path query, build, test or copy has been started.
C4_FatalAfterTargetInfoOnly ==
    (OptionsAssembled /\ UnsupportedCrossCompile /\ parsed.cross_compile_host # <<>>) =>
        /\ pc = "done"
        /\ exit_status = 1
        /\ error = "fatal_error"
        /\ invocations[Len(invocations)].kind = "target-info"
        /\ ti_failures = 0 => Len(invocations) = 1

C4_Witness ==
    /\ parsed.cross_compile_host = <<"bogus">>
    /\ pc = "done"
    /\ error = "fatal_error"
    /\ Len(invocations) = 1
    /\ invocations[1].kind = "target-info"
    /\ invocations[1].status = 0
    /\ build_target = <<"x86_64-unknown-linux-gnu">>

\* ---------------------------------------------------------------------------
\* C5

\* C5 as stated: a subprocess that exits with a non-zero status is the last
\* subprocess of the run, and the run ends with exit status 1.
C5_AnyFailureIsFatal ==
    \A k \in Indices :
        invocations[k].status # 0 =>
            /\ k = Len(invocations)
            /\ pc = "done"
            /\ exit_status = 1

\* C5, amended: a subprocess that exits with a non-zero status is the last
\* subprocess of the run, in whatever pass it was started, and the run ends
\* with exit status 1, except for a target-info query on Darwin: its failure
\* is replaced by the fallback triple x86_64-apple-macosx.
C5_FailureIsFatalExceptFallback ==
    \A k \in Indices :
        (/\ invocations[k].status # 0
         /\ ~(invocations[k].kind = "target-info" /\ system = "Darwin")) =>
            /\ k = Len(invocations)
            /\ pc = "done"
            /\ exit_status = 1

C5_Witness ==
    /\ pc = "done"
    /\ exit_status = 1
    /\ error = "CalledProcessError"
    /\ parsed.sanitize_all
    /\ pass = 1
    /\ invocations[Len(invocations)].kind = "test"
    /\ invocations[Len(invocations)].status = 1
    /\ invocations[Len(invocations)].pass = 1

\* ---------------------------------------------------------------------------
\* C7

AndroidWithoutConfig ==
    /\ Len(parsed.cross_compile_host) >= 1
    /\ parsed.cross_compile_host[1] = "android-"
    /\ parsed.cross_compile_config = None

\* C7: with an android-* cross-compile host and no --cross-compile-config
\* the run ends in a fatal configuration error before any build, test or
\* copy subprocess is started, and the assembled options contain
\* --destination only when a descriptor path is present.
C7_DestinationNeedsDescriptor ==
    /\ HasArg(swiftpm_args, <<"--destination">>)
          => parsed.cross_compile_config # None
    /\ (AndroidWithoutConfig /\ pc # "parse_args") =>
          /\ \A k \in Indices : invocations[k].kind \notin {"build", "test", "copy"}
          /\ pc = "done" => error = "fatal_error"

\* ---------------------------------------------------------------------------
\* C8

\* C8 as stated: the sanitizer list and the build path of the namespace
\* stay what parse_args returned.
C8_NamespaceNeverChanged ==
    /\ args.sanitize = parsed.sanitize
    /\ args.build_path = parsed.build_path

SanitizerDirs == <<"test-asan", "test-tsan", "test-ubsan">>

\* C8, amended: the sanitizer loop works on the one namespace and overwrites
\* it: from the start of sanitizer pass k on, its sanitizer list is the one
\* kind of pass k and its build path is <base>/<directory of pass k>; what
\* never changes is main's variable base, the parsed build path, from which
\* the build path of every pass is derived; before the first sanitizer pass
\* the namespace holds the parsed values.
C8_LoopOverwritesNamespace ==
    /\ pass = 0 =>
          /\ args.sanitize = parsed.sanitize
          /\ args.build_path = parsed.build_path
    /\ pass >= 1 =>
          /\ base = parsed.build_path
          /\ args.sanitize = <<SanitizerOrder[pass]>>
          /\ args.build_path = parsed.build_path \o <<SanitizerDirs[pass]>>
          /\ args.sanitize # parsed.sanitize
          /\ args.build_path # parsed.build_path

C8_Witness ==
    /\ parsed.sanitize_all
    /\ Succeeded
    /\ pass = 3
    /\ args.build_path = <<"/", "cwd", ".build", "test-ubsan">>
    /\ parsed.build_path = <<"/", "cwd", ".build">>

\* ---------------------------------------------------------------------------
\* C9

\* C9 as stated: in an install action the build invocation comes before the
\* bin-path query, and both come before the copies.
C9_BuildBeforeBinPath ==
    parsed.action = "install" =>
        \A k \in Indices :
            LET r == invocations[k]
                before(kind) == \E j \in 1..(k - 1) :
                                    /\ invocations[j].kind = kind
                                    /\ invocations[j].pass = r.pass
            IN  /\ r.kind = "bin-path" => before("build")
                /\ r.kind = "copy" => before("build") /\ before("bin-path")

\* C9, amended: in an install action (each pass of it) the subprocesses are
\* started in this order: the target-info query, the bin-path query (with
\* the assembled options), the full build invocation (with the same options
\* and -Xswiftc -no-toolchain-stdlib-rpath after them), then the copies; no
\* build precedes the bin-path query and no copy precedes either.
C9_BinPathBeforeBuild ==
    parsed.action = "install" =>
        \A p \in 0..pass :
            LET o == OfPass(p)
            IN  \A i \in 1..Len(o) :
                  /\ o[i].kind = (CASE i = 1 -> "target-info"
                                    [] i = 2 -> "bin-path"
                                    [] i = 3 -> "build"
                                    [] OTHER -> "copy")
                  /\ i = 3 =>
                        /\ ~HasArg(o[2].cmd, <<"-no-toolchain-stdlib-rpath">>)
                        /\ ~HasArg(o[3].cmd, <<"--product">>)
                        /\ SubSeq(o[3].cmd, 3, Len(o[3].cmd))
                              = SubSeq(o[2].cmd, 4, Len(o[2].cmd))
                                \o << <<"-Xswiftc">>, <<"-no-toolchain-stdlib-rpath">> >>

C9_Witness ==
    /\ parsed.action = "install"
    /\ Succeeded
    /\ Len(OfPass(0)) = 5
    /\ OfPass(0)[2].kind = "bin-path"
    /\ OfPass(0)[3].kind = "build"
    /\ OfPass(0)[5].kind = "copy"

====
